---- MODULE Spec2Model ----
(***************************************************************************)
(* Model of github.com/dcelasun/librato: the ring-buffer Queue (queue.go), *)
(* the dynamically resizing FlexibleChan built on it (chan.go) and the     *)
(* TimeCollatedClient with its feeder workers and collation loop           *)
(* (librato.go).                                                           *)
(***************************************************************************)
EXTENDS Integers, Sequences, FiniteSets, TLC

\* ------------------------------------------------------------------------
\* Bounds of the model
\* ------------------------------------------------------------------------
\* Queue specification: minimum sizes 2^0 .. 2^MaxMinLog, at most MaxQueuePush pushes.
MaxMinLog == 2
MaxQueuePush == 7
\* FlexibleChan specification: number of items the producer pushes.
MaxChanPush == 5
\* log2 of the minimum size of the Queue inside a FlexibleChan (2 << 10 in the code).
BufMinLog == 0
\* capacity "ms" of rx and tx of the channel of the FlexibleChan specification.
ChanCap == 1
\* Client specification: capacity of a per-source channel (2 << 9 in the code)
\* and of a collation channel (2 << 10 in the code), number of values pushed,
\* and the small value of MaxMetrics (a package variable the caller may set).
FeederCap == 1
CollateCap == 1
MaxPush == 2
SmallMaxMetrics == 1
\* Number of caller threads calling GetGauge / GetCounter at the same time.
MaxCallers == 3
\* The value MaxMetrics is declared with.
DefaultMaxMetrics == 300
\* The metric names callers use.
GaugeNames == {"g"}
CounterNames == {"c"}

\* Values of Go's interface{} as they travel through the queues and channels:
\* nil, a number pushed by a caller, and the map[string]interface{} that
\* runMetric builds for a measurement (its "name" and "value" entries).
NoItem == [type |-> "nil", name |-> "", value |-> 0]

Num(v) == [type |-> "int", name |-> "", value |-> v]

RECURSIVE Pow2(_)
Pow2(k) == IF k = 0 THEN 1 ELSE 2 * Pow2(k - 1)

\* Go's bitwise & on non-negative ints.
RECURSIVE BitAnd(_, _)
BitAnd(a, b) ==
    IF a = 0 \/ b = 0 THEN 0
    ELSE (IF a % 2 = 1 /\ b % 2 = 1 THEN 1 ELSE 0) + 2 * BitAnd(a \div 2, b \div 2)

\* Go's int, scaled down: WordBits bits in two's complement, wide enough for
\* the minimum sizes 2^0 .. 2^MaxMinLog.
WordBits == MaxMinLog + 2

MinInt == 0 - Pow2(WordBits - 1)

MaxInt == Pow2(WordBits - 1) - 1

\* The bits of an int, read as a non-negative number.
Bits(x) == x % Pow2(WordBits)

\* ------------------------------------------------------------------------
\* Queue (queue.go).  items is the backing slice (index i of the code is
\* items[i+1] here); start, end, count and ms are the struct's ints.
\* ------------------------------------------------------------------------
\* Faulty variant of NewQueue's test: only the size zero is refused.
NewQueuePanicsZeroOnly(minBufferSize) == minBufferSize = 0

\* NewQueue panics: by its own test of minBufferSize, or in make() when the
\* length is negative.
NewQueuePanics(minBufferSize) ==
    \/ minBufferSize = 0
    \/ BitAnd(Bits(minBufferSize), Bits(0 - minBufferSize)) # Bits(minBufferSize)
    \/ minBufferSize < 0

\* The *Queue of a caller that has no Queue.
NilQueue == [items |-> <<>>, start |-> 0, end |-> 0, count |-> 0, ms |-> 0]

NewQueue(minBufferSize) ==
    [items |-> [i \in 1..minBufferSize |-> NoItem],
     start |-> 0, end |-> 0, count |-> 0, ms |-> minBufferSize]

\* copy(dst, src) of Go: the first min(len(dst), len(src)) cells of dst are overwritten.
copy(dst, src) ==
    [i \in 1..Len(dst) |-> IF i <= Len(src) THEN src[i] ELSE dst[i]]

Min(a, b) == IF a < b THEN a ELSE b

\* Faulty variant of resize: the wrapped window is copied head segment first.
resizeHeadFirst(q) ==
    LET fresh == [i \in 1..(q.count * 2) |-> NoItem]
        live  == IF q.start < q.end
                 THEN SubSeq(q.items, q.start + 1, q.end)
                 ELSE SubSeq(q.items, 1, q.end) \o SubSeq(q.items, q.start + 1, Len(q.items))
    IN  [q EXCEPT !.items = copy(fresh, live), !.start = 0, !.end = q.count]

\* Faulty variant of resize: the new slice is four times the count.
resizeQuadruple(q) ==
    LET fresh == [i \in 1..(q.count * 4) |-> NoItem]
        live  == IF q.start < q.end
                 THEN SubSeq(q.items, q.start + 1, q.end)
                 ELSE SubSeq(q.items, q.start + 1, Len(q.items)) \o SubSeq(q.items, 1, q.end)
    IN  [q EXCEPT !.items = copy(fresh, live), !.start = 0, !.end = q.count]

resize(q) ==
    LET fresh == [i \in 1..(q.count * 2) |-> NoItem]
        tail  == SubSeq(q.items, q.start + 1, Len(q.items))
        n     == Min(Len(fresh), Len(tail))
        items == IF q.start < q.end
                 THEN copy(fresh, SubSeq(q.items, q.start + 1, q.end))
                 ELSE LET first == copy(fresh, tail)
                      IN  SubSeq(first, 1, n)
                            \o copy(SubSeq(first, n + 1, Len(first)), SubSeq(q.items, 1, q.end))
    IN  [q EXCEPT !.items = items, !.start = 0, !.end = q.count]

QueuePush(q, item) ==
    LET r == IF q.count = Len(q.items) THEN resize(q) ELSE q
    IN  [r EXCEPT !.items[r.end + 1] = item,
                  !.end = BitAnd(r.end + 1, Len(r.items) - 1),
                  !.count = r.count + 1]

\* Faulty variant of Pop: the shrink test forgets the minimum size.
QueuePopNoMin(q) ==
    IF q.count = 0
    THEN [q |-> q, item |-> NoItem, ok |-> FALSE]
    ELSE LET r == [q EXCEPT !.items[q.start + 1] = NoItem,
                            !.start = BitAnd(q.start + 1, Len(q.items) - 1),
                            !.count = q.count - 1]
         IN  [q    |-> IF r.count * 4 = Len(r.items) THEN resize(r) ELSE r,
              item |-> q.items[q.start + 1],
              ok   |-> TRUE]

\* Faulty variant of Pop: the Queue never shrinks.
QueuePopNoShrink(q) ==
    IF q.count = 0
    THEN [q |-> q, item |-> NoItem, ok |-> FALSE]
    ELSE [q    |-> [q EXCEPT !.items[q.start + 1] = NoItem,
                             !.start = BitAnd(q.start + 1, Len(q.items) - 1),
                             !.count = q.count - 1],
          item |-> q.items[q.start + 1],
          ok   |-> TRUE]

\* Pop returns (item, ok); the result here also carries the Queue after the call.
QueuePop(q) ==
    IF q.count = 0
    THEN [q |-> q, item |-> NoItem, ok |-> FALSE]
    ELSE LET r == [q EXCEPT !.items[q.start + 1] = NoItem,
                            !.start = BitAnd(q.start + 1, Len(q.items) - 1),
                            !.count = q.count - 1]
         IN  [q    |-> IF r.count * 4 = Len(r.items) /\ Len(r.items) > r.ms
                       THEN resize(r) ELSE r,
              item |-> q.items[q.start + 1],
              ok   |-> TRUE]

Length(q) == q.count

\* ------------------------------------------------------------------------
\* FlexibleChan (chan.go).  rx and tx are Go channels of capacity ms: the
\* sequence of items in flight and whether close() was called on them; quit
\* is closed or not.  inCh, outCh, outItem are the locals of work(): inCh and
\* outCh are TRUE while they hold c.rx / c.tx and FALSE when nil.  pc is the
\* position of work(): "run" in the select loop, "quit" between close(c.tx)
\* and close(c.quit), "done" after return.
\* ------------------------------------------------------------------------
NewFlexibleChan(ms) ==
    [rx |-> <<>>, rxClosed |-> FALSE, tx |-> <<>>, txClosed |-> FALSE, quit |-> FALSE,
     buf |-> NewQueue(Pow2(BufMinLog)), ms |-> ms,
     inCh |-> TRUE, outCh |-> FALSE, outItem |-> NoItem, pc |-> "run"]

\* c.rx <- item can proceed (Push); a send on a closed channel panics instead.
CanSend(c) == ~c.rxClosed /\ Len(c.rx) < c.ms

Send(c, item) == [c EXCEPT !.rx = Append(c.rx, item)]

\* close(c.rx)
Close(c) == [c EXCEPT !.rxClosed = TRUE]

\* <-c.tx can proceed (Pop): an item is there, or tx is closed and drained.
CanRecv(c) == Len(c.tx) > 0 \/ c.txClosed

\* Pop returns (item, ok); the result here also carries the channel after the call.
Recv(c) ==
    IF Len(c.tx) > 0
    THEN [c |-> [c EXCEPT !.tx = Tail(c.tx)], item |-> Head(c.tx), ok |-> TRUE]
    ELSE [c |-> c, item |-> NoItem, ok |-> FALSE]

\* work(): case inItem, ok = <-inCh is ready.
InputReady(c) == c.pc = "run" /\ c.inCh /\ (Len(c.rx) > 0 \/ c.rxClosed)

\* Faulty variant of the input case: an item that arrives while the output side is
\* busy replaces the pending outItem instead of being buffered.
workInputNoBuffer(c) ==
    IF Len(c.rx) = 0
    THEN IF ~c.outCh
         THEN [c EXCEPT !.txClosed = TRUE, !.pc = "quit"]
         ELSE [c EXCEPT !.inCh = FALSE]
    ELSE [c EXCEPT !.rx = Tail(c.rx), !.outItem = Head(c.rx), !.outCh = TRUE]

\* Faulty variant of the input case: the worker accepts input only while the output
\* side is idle (no buffering), so c.rx fills up.
workInputWhenIdle(c) ==
    IF Len(c.rx) = 0
    THEN IF ~c.outCh
         THEN [c EXCEPT !.txClosed = TRUE, !.pc = "quit"]
         ELSE [c EXCEPT !.inCh = FALSE]
    ELSE IF ~c.outCh
         THEN [c EXCEPT !.rx = Tail(c.rx), !.outItem = Head(c.rx), !.outCh = TRUE]
         ELSE c

\* work(): the body of case inItem, ok = <-inCh.
workInput(c) ==
    IF Len(c.rx) = 0
    THEN \* !ok: the input channel is closed
         IF ~c.outCh
         THEN [c EXCEPT !.txClosed = TRUE, !.pc = "quit"]
         ELSE [c EXCEPT !.inCh = FALSE]
    ELSE IF ~c.outCh
         THEN [c EXCEPT !.rx = Tail(c.rx), !.outItem = Head(c.rx), !.outCh = TRUE]
         ELSE [c EXCEPT !.rx = Tail(c.rx), !.buf = QueuePush(c.buf, Head(c.rx))]

\* work(): case outCh <- outItem is ready.
OutputReady(c) == c.pc = "run" /\ c.outCh /\ Len(c.tx) < c.ms

\* Faulty variant of the output case: with the buffer empty and the input closed the
\* worker only disables the output side and never closes tx and quit.
workOutputNoFinalize(c) ==
    LET p == QueuePop(c.buf)
        sent == [c EXCEPT !.tx = Append(c.tx, c.outItem), !.buf = p.q, !.outItem = p.item]
    IN  IF ~p.ok THEN [sent EXCEPT !.outCh = FALSE] ELSE sent

\* Faulty variant of the output case: the output side is disabled after every
\* send, also when Pop has returned the next item.
workOutputDisable(c) ==
    LET p == QueuePop(c.buf)
        sent == [c EXCEPT !.tx = Append(c.tx, c.outItem), !.buf = p.q, !.outItem = p.item]
    IN  IF ~p.ok /\ ~c.inCh
        THEN [sent EXCEPT !.txClosed = TRUE, !.pc = "quit"]
        ELSE [sent EXCEPT !.outCh = FALSE]

\* work(): the body of case outCh <- outItem.
workOutput(c) ==
    LET p == QueuePop(c.buf)
        sent == [c EXCEPT !.tx = Append(c.tx, c.outItem), !.buf = p.q, !.outItem = p.item]
    IN  IF ~p.ok
        THEN IF ~c.inCh
             THEN [sent EXCEPT !.txClosed = TRUE, !.pc = "quit"]
             ELSE [sent EXCEPT !.outCh = FALSE]
        ELSE sent

\* work(): close(c.quit); return
workQuit(c) == [c EXCEPT !.quit = TRUE, !.pc = "done"]

\* ------------------------------------------------------------------------
\* TimeCollatedClient (librato.go).  The client's channels are kept in one
\* map: <<"gauges", name>> is c.gauges[name], <<"counters", name>> is
\* c.counters[name].  librato.go reads a channel through Output() and writes
\* it through Input(), which chan.go does not define: they are taken to be
\* c.tx and c.rx, the ports Pop and Push use.
\* ------------------------------------------------------------------------
collateGauges == <<"collate", "gauges">>
collateCounters == <<"collate", "counters">>

Sources == ({"gauges"} \X GaugeNames) \cup ({"counters"} \X CounterNames)

\* The collation channel runMetric was started with for a source.
CollateOf(s) == IF s[1] = "gauges" THEN collateGauges ELSE collateCounters

\* runMetric: the body built for an item popped from the source's channel.
Body(name, item) ==
    LET body == [type |-> "map", name |-> name, value |-> 0]
    IN  IF item.type = "map"
        THEN [body EXCEPT !.name = item.name, !.value = item.value]
        ELSE [body EXCEPT !.value = item.value]

\* The locals of work() before its loop; atClosed records, when closed
\* reaches 2, how many flushes had been made and how many observations were
\* pending.
NewLoop ==
    [pc |-> "run", gauges |-> <<>>, counters |-> <<>>, closed |-> 0,
     gaugeChan |-> TRUE, counterChan |-> TRUE,
     atClosed |-> [seen |-> FALSE, flushes |-> 0, pending |-> 0]]

\* What work() does in one pass of its loop: the locals after it, and the
\* bodies it handed to postMetric (none or one).
Posted(l, trigger, keys) ==
    <<[trigger |-> trigger, keys |-> keys,
       gauges |-> IF "gauges" \in keys THEN l.gauges ELSE <<>>,
       counters |-> IF "counters" \in keys THEN l.counters ELSE <<>>,
       err |-> FALSE]>>

\* The calls of postMetric in posted, each returning an error (err) or nil.
\* work() drops what postMetric returns.
postMetric(posted, err) == [i \in DOMAIN posted |-> [posted[i] EXCEPT !.err = err]]

\* params of the default case: only the non-empty sides.
Params(l) ==
    (IF Len(l.gauges) > 0 THEN {"gauges"} ELSE {})
        \cup (IF Len(l.counters) > 0 THEN {"counters"} ELSE {})

\* Faulty variant of the timer case: the batch is not reset after the flush.
workTimerNoReset(l) ==
    IF Len(l.gauges) > 0 \/ Len(l.counters) > 0
    THEN [loop |-> l, posted |-> Posted(l, "timer", {"gauges", "counters"})]
    ELSE [loop |-> l, posted |-> <<>>]

\* case <-t.C
workTimer(l) ==
    IF Len(l.gauges) > 0 \/ Len(l.counters) > 0
    THEN [loop |-> [l EXCEPT !.gauges = <<>>, !.counters = <<>>],
          posted |-> Posted(l, "timer", {"gauges", "counters"})]
    ELSE [loop |-> l, posted |-> <<>>]

\* closed++ ; the channel variable = nil
Closed(l, n) ==
    [l EXCEPT !.closed = l.closed + 1,
              !.atClosed = IF l.closed + 1 = 2
                           THEN [seen |-> TRUE, flushes |-> n,
                                 pending |-> Len(l.gauges) + Len(l.counters)]
                           ELSE l.atClosed]

\* Faulty variant of the gauge case: a new observation is put in front of the batch.
workGaugePrepend(l, r, n) ==
    IF ~r.ok
    THEN [Closed(l, n) EXCEPT !.gaugeChan = FALSE]
    ELSE [l EXCEPT !.gauges = <<r.item>> \o l.gauges]

\* case item, ok := <-gaugeChan, r being what the receive returned
workGauge(l, r, n) ==
    IF ~r.ok
    THEN [Closed(l, n) EXCEPT !.gaugeChan = FALSE]
    ELSE [l EXCEPT !.gauges = Append(l.gauges, r.item)]

\* case item, ok := <-counterChan
workCounter(l, r, n) ==
    IF ~r.ok
    THEN [Closed(l, n) EXCEPT !.counterChan = FALSE]
    ELSE [l EXCEPT !.counters = Append(l.counters, r.item)]

\* Faulty variant of the default case: at shutdown the remaining batch is dropped.
workDefaultNoFinalFlush(l, max) ==
    IF l.closed = 2
    THEN [loop |-> [l EXCEPT !.gauges = <<>>, !.counters = <<>>, !.pc = "stop"],
          posted |-> <<>>]
    ELSE IF Len(l.gauges) + Len(l.counters) >= max
    THEN [loop |-> [l EXCEPT !.gauges = <<>>, !.counters = <<>>],
          posted |-> IF Params(l) # {} THEN Posted(l, "threshold", Params(l)) ELSE <<>>]
    ELSE [loop |-> l, posted |-> <<>>]

\* default: up to, and without, close(c.stop) on the shutdown path
workDefault(l, max) ==
    IF l.closed = 2
    THEN [loop |-> [l EXCEPT !.gauges = <<>>, !.counters = <<>>, !.pc = "stop"],
          posted |-> IF Params(l) # {} THEN Posted(l, "shutdown", Params(l)) ELSE <<>>]
    ELSE IF Len(l.gauges) + Len(l.counters) >= max
    THEN [loop |-> [l EXCEPT !.gauges = <<>>, !.counters = <<>>],
          posted |-> IF Params(l) # {} THEN Posted(l, "threshold", Params(l)) ELSE <<>>]
    ELSE [loop |-> l, posted |-> <<>>]

\* ------------------------------------------------------------------------
\* State
\* ------------------------------------------------------------------------
VARIABLES
    queue,      \* the Queue of the Queue specification
    qPushed,    \* items pushed to it so far, in order
    qPopped,    \* items returned by successful Pops, in order
    qLast,      \* what the last call on it was and did; before is len(items) before
                \* the call and, for NewQueue, the size asked for
    qEvents,    \* which kinds of resize have happened on it
    fc,         \* the FlexibleChan of the FlexibleChan specification
    prod,       \* its producer: pc, the item of the Push call in progress, pushes returned
    chPopped,   \* items its reader's Pop calls returned with ok=true, in order
    reader,     \* its reader: got ok=false, and how many items it had popped at Close
    MaxMetrics, \* the package variable MaxMetrics
    chans,      \* the FlexibleChans of the client: c.gauges[name], c.counters[name],
                \* c.collateGauges and c.collateCounters
    feeders,    \* the runMetric goroutine of each source: its position and the body it built
    wg,         \* the counter of c.wg
    loop,       \* the locals of TimeCollatedClient.work(), its position, and what it
                \* saw when both collation channels had reported closed
    ticker,     \* t: t.Stop() was called
    stop,       \* c.stop is closed
    flushes,    \* the calls of postMetric so far: what triggered each, and its body
    main,       \* the caller's thread: pushing, in Close(), in Wait(), done
    pushed,     \* number of values pushed to each source
    panicked,   \* a goroutine panicked: the process is gone
    failing,    \* the calls of postMetric, by number, that the Librato endpoint fails
    getters     \* caller threads inside GetGauge / GetCounter, the map entries they
                \* see and write, and the channels and runMetric goroutines they made

qvars == <<queue, qPushed, qPopped, qLast, qEvents>>
cvars == <<fc, prod, chPopped, reader>>
\* What no action of the client's caller and goroutines changes.
others == <<MaxMetrics, failing, getters>>
tvars == <<MaxMetrics, chans, feeders, wg, loop, ticker, stop, flushes, main, pushed, panicked,
           failing, getters>>
vars == <<queue, qPushed, qPopped, qLast, qEvents, fc, prod, chPopped, reader,
          MaxMetrics, chans, feeders, wg, loop, ticker, stop, flushes, main, pushed, panicked,
          failing, getters>>

\* The values the variables of the other specifications rest at.
QueueIdle ==
    /\ queue = NewQueue(1) /\ qPushed = <<>> /\ qPopped = <<>>
    /\ qLast = [op |-> "new", resized |-> FALSE, ok |-> TRUE, before |-> 0]
    /\ qEvents = {}

ChanIdle ==
    /\ fc = NewFlexibleChan(ChanCap)
    /\ prod = [pc |-> "idle", item |-> NoItem, pushed |-> 0]
    /\ chPopped = <<>>
    /\ reader = [done |-> FALSE, atClose |-> 0]

\* NewTimeCollatedClient with MaxMetrics = max: the two collation channels
\* and work() started, no source yet.
NewTimeCollatedClient(max) ==
    /\ MaxMetrics = max
    /\ chans = [k \in {collateGauges, collateCounters} |-> NewFlexibleChan(CollateCap)]
    /\ feeders = [k \in {} |-> 0]
    /\ wg = 0
    /\ loop = NewLoop
    /\ ticker = [stopped |-> FALSE]
    /\ stop = FALSE
    /\ flushes = <<>>
    /\ main = [pc |-> "run", cur |-> collateGauges, todo |-> {}, calls |-> 0]
    /\ pushed = [k \in Sources |-> 0]
    /\ panicked = FALSE

\* No caller thread is inside GetGauge / GetCounter; the maps are as made
\* by NewTimeCollatedClient.
GetIdle ==
    getters = [map |-> [s \in {} |-> 0], made |-> [s \in Sources |-> 0],
               call |-> <<>>, fatal |-> FALSE]

ClientIdle == NewTimeCollatedClient(DefaultMaxMetrics) /\ failing = {} /\ GetIdle

\* ------------------------------------------------------------------------
\* Queue specification: any interleaving of Push and Pop on one Queue
\* ------------------------------------------------------------------------
InitQueue ==
    /\ \E k \in 0..MaxMinLog : queue = NewQueue(Pow2(k))
    /\ qPushed = <<>>
    /\ qPopped = <<>>
    /\ qLast = [op |-> "new", resized |-> FALSE, ok |-> TRUE, before |-> 0]
    /\ qEvents = {}
    /\ ChanIdle
    /\ ClientIdle

\* The resize a call makes: "grow" or "shrink", and "wrap" when the live window
\* it copies is in two segments.
ResizeEvents(q, kind) == {kind} \cup (IF q.start >= q.end /\ q.start > 0 THEN {"wrap"} ELSE {})

\* NewQueue(minBufferSize) is called with the size that qLast.before holds.
CallNewQueue ==
    /\ qLast.op = "call"
    /\ IF NewQueuePanics(qLast.before)
       THEN qLast' = [qLast EXCEPT !.op = "panic"] /\ UNCHANGED queue
       ELSE qLast' = [qLast EXCEPT !.op = "new"] /\ queue' = NewQueue(qLast.before)
    /\ UNCHANGED <<qPushed, qPopped, qEvents, cvars, tvars>>

\* q.Push(item): the n-th call pushes the item n.
DoQueuePush ==
    /\ qLast.op \in {"new", "push", "pop"}
    /\ Len(qPushed) < MaxQueuePush
    /\ LET item == Num(Len(qPushed) + 1)
       IN  /\ queue' = QueuePush(queue, item)
           /\ qPushed' = Append(qPushed, item)
           /\ qLast' = [op |-> "push", resized |-> queue.count = Len(queue.items),
                        ok |-> TRUE, before |-> Len(queue.items)]
           /\ qEvents' = IF queue.count = Len(queue.items)
                          THEN qEvents \cup ResizeEvents(queue, "grow") ELSE qEvents
    /\ UNCHANGED <<qPopped, cvars, tvars>>

\* q.Pop()
DoQueuePop ==
    LET p == QueuePop(queue)
        shrinks == p.ok /\ Len(p.q.items) # Len(queue.items)
    IN  /\ qLast.op \in {"new", "push", "pop"}
        /\ queue' = p.q
        /\ qPopped' = IF p.ok THEN Append(qPopped, p.item) ELSE qPopped
        /\ qLast' = [op |-> "pop", resized |-> shrinks,
                     ok |-> p.ok, before |-> Len(queue.items)]
        /\ qEvents' = IF shrinks
                       THEN qEvents \cup ResizeEvents([queue EXCEPT
                                !.start = BitAnd(queue.start + 1, Len(queue.items) - 1)], "shrink")
                       ELSE qEvents
        /\ UNCHANGED <<qPushed, cvars, tvars>>

NextQueue == DoQueuePush \/ DoQueuePop

SpecQueue == InitQueue /\ [][NextQueue]_vars

\* Queue specification from the call of NewQueue on, with any int as the
\* minimum size.
InitNewQueue ==
    /\ queue = NilQueue
    /\ qPushed = <<>>
    /\ qPopped = <<>>
    /\ \E n \in MinInt..MaxInt :
            qLast = [op |-> "call", resized |-> FALSE, ok |-> TRUE, before |-> n]
    /\ qEvents = {}
    /\ ChanIdle
    /\ ClientIdle

NextNewQueue == CallNewQueue \/ NextQueue

SpecNewQueue == InitNewQueue /\ [][NextNewQueue]_vars

\* ------------------------------------------------------------------------
\* FlexibleChan specification: one producer calling Push and then Close and
\* Wait, the worker, and one reader calling Pop until ok=false.
\* ------------------------------------------------------------------------
InitChan == QueueIdle /\ ChanIdle /\ ClientIdle

\* The producer calls c.Push(item): the n-th call pushes the item n.
CallPush ==
    /\ prod.pc = "idle"
    /\ prod.pushed < MaxChanPush
    /\ prod' = [prod EXCEPT !.pc = "push", !.item = Num(prod.pushed + 1)]
    /\ UNCHANGED <<fc, chPopped, reader, qvars, tvars>>

\* c.rx <- item completes and Push returns.
PushReturn ==
    /\ prod.pc = "push"
    /\ CanSend(fc)
    /\ fc' = Send(fc, prod.item)
    /\ prod' = [pc |-> "idle", item |-> NoItem, pushed |-> prod.pushed + 1]
    /\ UNCHANGED <<chPopped, reader, qvars, tvars>>

\* The producer calls c.Close() and then c.Wait().
CallClose ==
    /\ prod.pc = "idle"
    /\ fc' = Close(fc)
    /\ prod' = [prod EXCEPT !.pc = "wait"]
    /\ reader' = [reader EXCEPT !.atClose = Len(chPopped)]
    /\ UNCHANGED <<chPopped, qvars, tvars>>

\* <-c.quit completes and Wait returns.
WaitReturn ==
    /\ prod.pc = "wait"
    /\ fc.quit
    /\ prod' = [prod EXCEPT !.pc = "done"]
    /\ UNCHANGED <<fc, chPopped, reader, qvars, tvars>>

WorkInput ==
    /\ InputReady(fc)
    /\ fc' = workInput(fc)
    /\ UNCHANGED <<prod, chPopped, reader, qvars, tvars>>

WorkOutput ==
    /\ OutputReady(fc)
    /\ fc' = workOutput(fc)
    /\ UNCHANGED <<prod, chPopped, reader, qvars, tvars>>

WorkQuit ==
    /\ fc.pc = "quit"
    /\ fc' = workQuit(fc)
    /\ UNCHANGED <<prod, chPopped, reader, qvars, tvars>>

Work == WorkInput \/ WorkOutput \/ WorkQuit

\* The reader calls c.Pop() and it returns; the reader stops at ok=false.
ReaderPop ==
    /\ ~reader.done
    /\ CanRecv(fc)
    /\ LET r == Recv(fc)
       IN  /\ fc' = r.c
           /\ chPopped' = IF r.ok THEN Append(chPopped, r.item) ELSE chPopped
           /\ reader' = [reader EXCEPT !.done = ~r.ok]
    /\ UNCHANGED <<prod, qvars, tvars>>

Producer == CallPush \/ PushReturn \/ CallClose \/ WaitReturn

NextChan == Producer \/ Work \/ ReaderPop

SpecChan == InitChan /\ [][NextChan]_vars

\* The goroutines of the producer and of the worker are scheduled fairly; the
\* reader may stop reading at any time.
SpecChanWorkerFair == SpecChan /\ WF_vars(Producer) /\ WF_vars(Work)

\* The reader too keeps calling Pop until it gets ok=false.
SpecChanFair == SpecChanWorkerFair /\ WF_vars(ReaderPop)

\* ------------------------------------------------------------------------
\* Client specification: one caller that gets sources, pushes values, then
\* calls Close() and Wait(); the worker of every channel; the runMetric
\* goroutine of every source; work() and its ticker.
\* ------------------------------------------------------------------------
Init ==
    /\ QueueIdle /\ ChanIdle
    /\ \E max \in {SmallMaxMetrics, DefaultMaxMetrics} : NewTimeCollatedClient(max)
    /\ failing = {}
    /\ GetIdle

\* The same client against an endpoint that fails the first request only, or
\* every request (no run makes more than MaxPush).
InitTransport ==
    /\ QueueIdle /\ ChanIdle
    /\ NewTimeCollatedClient(SmallMaxMetrics)
    /\ failing \in {{1}, 1..MaxPush}
    /\ GetIdle

RECURSIVE Sum(_, _)
Sum(f, S) == IF S = {} THEN 0 ELSE LET x == CHOOSE x \in S : TRUE IN f[x] + Sum(f, S \ {x})

TotalPushed == Sum(pushed, Sources)

\* GetGauge(name) / GetCounter(name) for a name not yet in the map: the
\* channel is made and go c.runMetric(...) started.  (For a name in the map
\* the call changes nothing.)
GetMetric(s) ==
    /\ ~panicked
    /\ main.pc = "run"
    /\ s \notin DOMAIN chans
    /\ chans' = [k \in DOMAIN chans \cup {s} |->
                    IF k = s THEN NewFlexibleChan(FeederCap) ELSE chans[k]]
    /\ feeders' = [k \in DOMAIN feeders \cup {s} |->
                    IF k = s THEN [pc |-> "start", body |-> NoItem] ELSE feeders[k]]
    /\ UNCHANGED <<others, wg, loop, ticker, stop, flushes, main, pushed, panicked,
                   qvars, cvars>>

GetGauge == \E n \in GaugeNames : GetMetric(<<"gauges", n>>)

GetCounter == \E n \in CounterNames : GetMetric(<<"counters", n>>)

\* c.GetGauge(name).Push(v) / c.GetCounter(name).Push(v) returns: the n-th
\* value pushed to a source is n.
PushMetric ==
    /\ ~panicked
    /\ main.pc = "run"
    /\ TotalPushed < MaxPush
    /\ \E s \in DOMAIN feeders :
        /\ CanSend(chans[s])
        /\ chans' = [chans EXCEPT ![s] = Send(@, Num(pushed[s] + 1))]
        /\ pushed' = [pushed EXCEPT ![s] = @ + 1]
    /\ UNCHANGED <<others, feeders, wg, loop, ticker, stop, flushes, main, panicked,
                   qvars, cvars>>

\* The caller calls c.Close(); todo is what the two range loops have left.
CallClientClose ==
    /\ ~panicked
    /\ main.pc = "run"
    /\ main' = [main EXCEPT !.pc = "range", !.todo = DOMAIN feeders, !.calls = 1]
    /\ UNCHANGED <<others, chans, feeders, wg, loop, ticker, stop, flushes, pushed,
                   panicked, qvars, cvars>>

\* The caller calls c.Close() again after c.Close() has returned: the range
\* loops start over on the same maps.
CallClientCloseAgain ==
    /\ ~panicked
    /\ main.pc = "closed"
    /\ main' = [main EXCEPT !.pc = "range", !.todo = DOMAIN feeders, !.calls = @ + 1]
    /\ UNCHANGED <<others, chans, feeders, wg, loop, ticker, stop, flushes, pushed,
                   panicked, qvars, cvars>>

\* Close(): c.Close() on the next channel of the range loops, the gauges
\* before the counters, in the order Go's map iteration gives.  close(c.rx)
\* of a channel that is already closed panics in the caller's thread.
CloseSource ==
    /\ ~panicked
    /\ main.pc = "range"
    /\ \E s \in main.todo :
        /\ s[1] = "gauges" \/ \A t \in main.todo : t[1] = "counters"
        /\ IF chans[s].rxClosed
           THEN panicked' = TRUE /\ main' = [main EXCEPT !.pc = "panic"] /\ UNCHANGED chans
           ELSE /\ chans' = [chans EXCEPT ![s] = Close(@)]
                /\ main' = [main EXCEPT !.pc = "wait", !.cur = s, !.todo = main.todo \ {s}]
                /\ UNCHANGED panicked
    /\ UNCHANGED <<others, feeders, wg, loop, ticker, stop, flushes, pushed, qvars, cvars>>

\* Close(): c.Wait() on the channel just closed returns (<-c.quit).
WaitChan ==
    /\ ~panicked
    /\ main.pc = "wait"
    /\ chans[main.cur].quit
    /\ main' = [main EXCEPT !.pc = IF main.cur = collateGauges THEN "closeCounters"
                                  ELSE IF main.cur = collateCounters THEN "closed"
                                  ELSE "range"]
    /\ UNCHANGED <<others, chans, feeders, wg, loop, ticker, stop, flushes, pushed,
                   panicked, qvars, cvars>>

\* Close(): c.wg.Wait() returns.
WgWait ==
    /\ ~panicked
    /\ main.pc = "range"
    /\ main.todo = {}
    /\ wg = 0
    /\ main' = [main EXCEPT !.pc = "closeGauges"]
    /\ UNCHANGED <<others, chans, feeders, wg, loop, ticker, stop, flushes, pushed,
                   panicked, qvars, cvars>>

\* Close(): c.collateGauges.Close(), and later c.collateCounters.Close().
CloseCollate ==
    /\ ~panicked
    /\ main.pc \in {"closeGauges", "closeCounters"}
    /\ LET k == IF main.pc = "closeGauges" THEN collateGauges ELSE collateCounters
       IN  IF chans[k].rxClosed
           THEN panicked' = TRUE /\ main' = [main EXCEPT !.pc = "panic"] /\ UNCHANGED chans
           ELSE /\ chans' = [chans EXCEPT ![k] = Close(@)]
                /\ main' = [main EXCEPT !.pc = "wait", !.cur = k]
                /\ UNCHANGED panicked
    /\ UNCHANGED <<others, feeders, wg, loop, ticker, stop, flushes, pushed, qvars, cvars>>

\* Close() has returned; c.Wait() returns (<-c.stop).
ClientWait ==
    /\ ~panicked
    /\ main.pc = "closed"
    /\ stop
    /\ main' = [main EXCEPT !.pc = "done"]
    /\ UNCHANGED <<others, chans, feeders, wg, loop, ticker, stop, flushes, pushed,
                   panicked, qvars, cvars>>

\* The worker of the channel k.
ChanWork(k) ==
    /\ ~panicked
    /\ k \in DOMAIN chans
    /\ \/ InputReady(chans[k]) /\ chans' = [chans EXCEPT ![k] = workInput(@)]
       \/ OutputReady(chans[k]) /\ chans' = [chans EXCEPT ![k] = workOutput(@)]
       \/ chans[k].pc = "quit" /\ chans' = [chans EXCEPT ![k] = workQuit(@)]
    /\ UNCHANGED <<others, feeders, wg, loop, ticker, stop, flushes, main, pushed,
                   panicked, qvars, cvars>>

\* runMetric: c.wg.Add(1)
RunMetricStart(s) ==
    /\ feeders[s].pc = "start"
    /\ wg' = wg + 1
    /\ feeders' = [feeders EXCEPT ![s].pc = "recv"]
    /\ UNCHANGED <<chans, panicked>>

\* runMetric: case item, ok := <-ch.Output(), up to the send
RunMetricRecv(s) ==
    /\ feeders[s].pc = "recv"
    /\ CanRecv(chans[s])
    /\ LET r == Recv(chans[s])
       IN  IF ~r.ok
           THEN /\ wg' = wg - 1
                /\ feeders' = [feeders EXCEPT ![s].pc = "done"]
                /\ UNCHANGED chans
           ELSE /\ chans' = [chans EXCEPT ![s] = r.c]
                /\ feeders' = [feeders EXCEPT ![s] = [pc |-> "send", body |-> Body(s[2], r.item)]]
                /\ UNCHANGED wg
    /\ UNCHANGED panicked

\* runMetric: collate.Input() <- body; on a closed channel the send panics.
RunMetricSend(s) ==
    /\ feeders[s].pc = "send"
    /\ IF chans[CollateOf(s)].rxClosed
       THEN panicked' = TRUE /\ UNCHANGED <<chans, feeders>>
       ELSE /\ CanSend(chans[CollateOf(s)])
            /\ chans' = [chans EXCEPT ![CollateOf(s)] = Send(@, feeders[s].body)]
            /\ feeders' = [feeders EXCEPT ![s] = [pc |-> "recv", body |-> NoItem]]
            /\ UNCHANGED panicked
    /\ UNCHANGED wg

\* The runMetric goroutine of the source s.
RunMetric(s) ==
    /\ ~panicked
    /\ s \in DOMAIN feeders
    /\ RunMetricStart(s) \/ RunMetricRecv(s) \/ RunMetricSend(s)
    /\ UNCHANGED <<others, loop, ticker, stop, flushes, main, pushed, qvars, cvars>>

\* What the next call of postMetric returns: an error (TRUE) or nil (FALSE).
Errors == {Len(flushes) + 1 \in failing}

GaugeReady == loop.gaugeChan /\ CanRecv(chans[collateGauges])

CounterReady == loop.counterChan /\ CanRecv(chans[collateCounters])

\* Faulty variant of the timer case: a batch whose postMetric returned an
\* error is kept, to be handed over again.
LoopTimerRetry ==
    /\ ~panicked
    /\ loop.pc = "run"
    /\ ~ticker.stopped
    /\ \E err \in Errors :
        /\ flushes' = flushes \o postMetric(workTimer(loop).posted, err)
        /\ loop' = IF err THEN loop ELSE workTimer(loop).loop
    /\ UNCHANGED <<others, chans, feeders, wg, ticker, stop, main, pushed, panicked,
                   qvars, cvars>>

\* work(): case <-t.C.  The ticker delivers a tick at any time until
\* t.Stop(), and the loop takes it at its next select.
LoopTimer ==
    /\ ~panicked
    /\ loop.pc = "run"
    /\ ~ticker.stopped
    /\ loop' = workTimer(loop).loop
    /\ \E err \in Errors : flushes' = flushes \o postMetric(workTimer(loop).posted, err)
    /\ UNCHANGED <<others, chans, feeders, wg, ticker, stop, main, pushed, panicked,
                   qvars, cvars>>

\* work(): case item, ok := <-gaugeChan
LoopGauge ==
    /\ ~panicked
    /\ loop.pc = "run"
    /\ GaugeReady
    /\ LET r == Recv(chans[collateGauges])
       IN  /\ chans' = [chans EXCEPT ![collateGauges] = r.c]
           /\ loop' = workGauge(loop, r, Len(flushes))
    /\ UNCHANGED <<others, feeders, wg, ticker, stop, flushes, main, pushed, panicked,
                   qvars, cvars>>

\* work(): case item, ok := <-counterChan
LoopCounter ==
    /\ ~panicked
    /\ loop.pc = "run"
    /\ CounterReady
    /\ LET r == Recv(chans[collateCounters])
       IN  /\ chans' = [chans EXCEPT ![collateCounters] = r.c]
           /\ loop' = workCounter(loop, r, Len(flushes))
    /\ UNCHANGED <<others, feeders, wg, ticker, stop, flushes, main, pushed, panicked,
                   qvars, cvars>>

\* work(): default, taken when no other case is ready (no tick is waiting
\* and neither channel has an item or is closed); t.Stop() on the shutdown
\* path.
LoopDefault ==
    /\ ~panicked
    /\ loop.pc = "run"
    /\ ~GaugeReady /\ ~CounterReady
    /\ loop' = workDefault(loop, MaxMetrics).loop
    /\ \E err \in Errors :
            flushes' = flushes \o postMetric(workDefault(loop, MaxMetrics).posted, err)
    /\ ticker' = IF loop.closed = 2 THEN [ticker EXCEPT !.stopped = TRUE] ELSE ticker
    /\ UNCHANGED <<others, chans, feeders, wg, stop, main, pushed, panicked, qvars, cvars>>

\* work(): close(c.stop); return
LoopStop ==
    /\ ~panicked
    /\ loop.pc = "stop"
    /\ stop' = TRUE
    /\ loop' = [loop EXCEPT !.pc = "done"]
    /\ UNCHANGED <<others, chans, feeders, wg, ticker, flushes, main, pushed, panicked,
                   qvars, cvars>>

Loop == LoopTimer \/ LoopGauge \/ LoopCounter \/ LoopDefault \/ LoopStop

ClientClose == CloseSource \/ WaitChan \/ WgWait \/ CloseCollate \/ ClientWait

ChanIds == Sources \cup {collateGauges, collateCounters}

Next ==
    \/ GetGauge \/ GetCounter \/ PushMetric \/ CallClientClose
    \/ ClientClose
    \/ \E k \in ChanIds : ChanWork(k)
    \/ \E s \in Sources : RunMetric(s)
    \/ Loop

Spec == Init /\ [][Next]_vars

SpecTransport == InitTransport /\ [][Next]_vars

\* The same client with a caller that may call Close() again once Close()
\* has returned.
NextReclose == Next \/ CallClientCloseAgain

SpecReclose == Init /\ [][NextReclose]_vars

\* ------------------------------------------------------------------------
\* GetGauge / GetCounter specification: MaxCallers threads, each calling
\* GetGauge(name) or GetCounter(name) once, at the same time.  A channel is
\* known by its number among the channels made for its name.
\* ------------------------------------------------------------------------
InitGet ==
    /\ QueueIdle /\ ChanIdle
    /\ NewTimeCollatedClient(DefaultMaxMetrics)
    /\ failing = {}
    /\ \E call \in [1..MaxCallers -> {[pc |-> "lookup", s |-> s, ch |-> 0] : s \in Sources}] :
            getters = [map |-> [s \in {} |-> 0], made |-> [s \in Sources |-> 0],
                       call |-> call, fatal |-> FALSE]

\* The next statement of t reads or writes a map that another thread is about
\* to write, or writes a map another thread is about to read: nothing orders
\* the two accesses.
Racing(t) ==
    LET c == getters.call
    IN  \E u \in DOMAIN c \ {t} :
            /\ c[u].s[1] = c[t].s[1]
            /\ \/ c[t].pc = "create" /\ c[u].pc \in {"lookup", "create"}
               \/ c[t].pc = "lookup" /\ c[u].pc = "create"

\* What an access of t to the map may do: go through, or, when it races with
\* another thread's, make the runtime stop the process (fatal error:
\* concurrent map read and map write / concurrent map writes).
Fatal(t) == IF Racing(t) THEN {FALSE, TRUE} ELSE {FALSE}

\* ch, ok := c.gauges[name]
GetLookup(t) ==
    LET c == getters.call[t]
    IN  /\ ~getters.fatal
        /\ c.pc = "lookup"
        /\ \E f \in Fatal(t) :
            getters' = IF f THEN [getters EXCEPT !.fatal = TRUE]
                       ELSE IF c.s \in DOMAIN getters.map
                       THEN [getters EXCEPT !.call[t].pc = "return",
                                            !.call[t].ch = getters.map[c.s]]
                       ELSE [getters EXCEPT !.call[t].pc = "create"]
        /\ UNCHANGED <<MaxMetrics, failing, chans, feeders, wg, loop, ticker, stop, flushes,
                       main, pushed, panicked, qvars, cvars>>

\* if !ok { ch = NewFlexibleChan(2 << 9); c.gauges[name] = ch; go c.runMetric(...) }
GetCreate(t) ==
    LET c == getters.call[t]
        ch == getters.made[c.s] + 1
    IN  /\ ~getters.fatal
        /\ c.pc = "create"
        /\ \E f \in Fatal(t) :
            getters' = IF f THEN [getters EXCEPT !.fatal = TRUE]
                       ELSE [getters EXCEPT
                                !.map = [k \in DOMAIN getters.map \cup {c.s} |->
                                            IF k = c.s THEN ch ELSE getters.map[k]],
                                !.made[c.s] = ch,
                                !.call[t].pc = "return",
                                !.call[t].ch = ch]
        /\ UNCHANGED <<MaxMetrics, failing, chans, feeders, wg, loop, ticker, stop, flushes,
                       main, pushed, panicked, qvars, cvars>>

\* return ch
GetReturn(t) ==
    /\ ~getters.fatal
    /\ getters.call[t].pc = "return"
    /\ getters' = [getters EXCEPT !.call[t].pc = "done"]
    /\ UNCHANGED <<MaxMetrics, failing, chans, feeders, wg, loop, ticker, stop, flushes,
                   main, pushed, panicked, qvars, cvars>>

NextGet == \E t \in 1..MaxCallers : GetLookup(t) \/ GetCreate(t) \/ GetReturn(t)

SpecGet == InitGet /\ [][NextGet]_vars

\* ------------------------------------------------------------------------
\* Properties
\* ------------------------------------------------------------------------
IsPrefix(s, t) == Len(s) <= Len(t) /\ SubSeq(t, 1, Len(s)) = s

IsPow2(n) == n > 0 /\ BitAnd(n, n - 1) = 0

Max(a, b) == IF a > b THEN a ELSE b

\* C9: the items returned by successful Pops are, in order, a prefix of the
\* items pushed, whatever the interleaving of Push and Pop, across grow and
\* shrink resizes and wrap-around of start and end.
QueueFIFO == IsPrefix(qPopped, qPushed) /\ Len(qPopped) = Len(qPushed) - queue.count

\* A grow and a shrink have happened, one of them on a wrapped window, and
\* items pushed after them have been popped.
QueueFIFOWitness ==
    /\ qEvents = {"grow", "shrink", "wrap"}
    /\ Len(qPopped) >= 5
    /\ qLast.op = "pop" /\ qLast.ok

\* C10: len(items) is a power of two and at least the minimum size, and right
\* after a resize it equals max(2*count, minimum size), count being the
\* number of items at the time of the resize.
QueueCapacity ==
    /\ IsPow2(Len(queue.items))
    /\ Len(queue.items) >= queue.ms
    /\ qLast.resized =>
          Len(queue.items) =
            Max(2 * (IF qLast.op = "push" THEN queue.count - 1 ELSE queue.count), queue.ms)

\* A Pop has just shrunk a Queue that had grown to four times its minimum size.
QueueCapacityWitness ==
    /\ qLast.op = "pop" /\ qLast.resized
    /\ qLast.before = 4 * queue.ms
    /\ "grow" \in qEvents


\* The items 1..n in the order the producer pushed them.
Pushed(n) == [i \in 1..n |-> Num(i)]

\* C1: the reader's Pops return the pushed items in push order, each once; it
\* gets ok=false only after Close and after every pushed item; and once Close
\* is called it does get ok=false, also when it had not popped anything before.
ChanDelivers ==
    /\ [](IsPrefix(chPopped, Pushed(prod.pushed)))
    /\ [](reader.done => fc.rxClosed /\ chPopped = Pushed(prod.pushed))
    /\ [](fc.rxClosed => <>reader.done)

\* MaxChanPush items were pushed and the channel closed before the reader's
\* first Pop; the reader has then popped them all and got ok=false.
ChanDeliversWitness ==
    /\ reader.done
    /\ reader.atClose = 0
    /\ prod.pushed = MaxChanPush
    /\ Len(chPopped) = MaxChanPush

\* C7 as stated: once Close() has been called, Wait() returns, whatever is
\* pending and whether or not anything reads the output port.
ChanWaitAlwaysReturns == (prod.pc = "wait") ~> (prod.pc = "done")

\* C7 amended: once Close() has been called, Wait() returns provided the
\* output port keeps being read while it holds items.
ChanWaitReturnsIfRead == WF_vars(ReaderPop) => ((prod.pc = "wait") ~> (prod.pc = "done"))

\* Wait() has returned after a Close() made while items were pending in the
\* input port, in the Queue and in the output port.
ChanWaitWitness ==
    /\ prod.pc = "done"
    /\ prod.pushed = MaxChanPush
    /\ reader.atClose = 0
    /\ Len(chPopped) > fc.ms

\* C8: every Push call made before Close returns, the worker being scheduled,
\* whether or not a reader consumes the output port.
PushReturns == (prod.pc = "push") ~> (prod.pc = "idle")

\* All the pushes have returned although nothing was ever popped: the output
\* port is full and the overflow is in the Queue, which has grown.
PushReturnsWitness ==
    /\ prod.pushed = MaxChanPush
    /\ prod.pc = "idle"
    /\ chPopped = <<>>
    /\ Len(fc.tx) = fc.ms
    /\ Len(fc.buf.items) > Pow2(BufMinLog)


\* The values of the observations named n in a list of observations, in order.
RECURSIVE ValuesOf(_, _)
ValuesOf(obs, n) ==
    IF obs = <<>> THEN <<>>
    ELSE (IF Head(obs).name = n THEN <<Head(obs).value>> ELSE <<>>) \o ValuesOf(Tail(obs), n)

\* The values of the source s in the bodies handed to postMetric so far, in
\* the order of the flushes and, within a flush, of its list.
RECURSIVE FlushedOf(_, _)
FlushedOf(fl, s) ==
    IF fl = <<>> THEN <<>>
    ELSE ValuesOf(IF s[1] = "gauges" THEN Head(fl).gauges ELSE Head(fl).counters, s[2])
            \o FlushedOf(Tail(fl), s)

Values(n) == [i \in 1..n |-> i]

Size(f) == Len(f.gauges) + Len(f.counters)

\* C2 as stated: when Close() and Wait() have returned, every value pushed
\* to a source has been handed to postMetric in exactly one flush; and with
\* MaxMetrics = 300, only values pushed to the gauge "g" and no flush by the
\* timer, there is exactly one flush, whose gauges are those values in order.
ClientDeliversAll ==
    main.pc = "done" =>
        /\ \A s \in Sources : FlushedOf(flushes, s) = Values(pushed[s])
        /\ (/\ MaxMetrics = DefaultMaxMetrics
            /\ pushed[<<"gauges", "g">>] = TotalPushed /\ TotalPushed > 0
            /\ \A i \in 1..Len(flushes) : flushes[i].trigger # "timer")
           => /\ Len(flushes) = 1
              /\ ValuesOf(flushes[1].gauges, "g") = Values(TotalPushed)
              /\ flushes[1].counters = <<>>

\* C3: for each source, the values of its observations in the flushed
\* batches, taken in order, are the values pushed to it in push order (those
\* flushed so far: a prefix of the pushed ones).
SourceOrder ==
    \A s \in Sources : IsPrefix(FlushedOf(flushes, s), Values(pushed[s]))

\* Two values of one source have been flushed, in two different flushes, and
\* the other source has been flushed too.
SourceOrderWitness ==
    /\ Len(flushes) >= 2
    /\ \E s \in Sources :
        /\ FlushedOf(flushes, s) = <<1, 2>>
        /\ FlushedOf(SubSeq(flushes, 1, 1), s) = <<1>>

\* C4 as stated: no body handed to postMetric holds more than MaxMetrics
\* observations, and a flush made by the threshold test holds exactly
\* MaxMetrics.
ThresholdBound ==
    \A i \in 1..Len(flushes) :
        /\ Size(flushes[i]) <= MaxMetrics
        /\ flushes[i].trigger = "threshold" => Size(flushes[i]) = MaxMetrics

\* C5: after both collation channels have reported closed the loop hands the
\* remaining batch to postMetric once if it is not empty and makes no flush if
\* it is empty; c.stop is closed only when that is done; and no flush follows
\* the closing of c.stop.
ShutdownFlush ==
    /\ [](loop.atClosed.seen =>
            LET after == SubSeq(flushes, loop.atClosed.flushes + 1, Len(flushes))
            IN  /\ Len(after) <= (IF loop.atClosed.pending > 0 THEN 1 ELSE 0)
                /\ \A i \in 1..Len(after) : Size(after[i]) = loop.atClosed.pending
                /\ stop => Len(after) = (IF loop.atClosed.pending > 0 THEN 1 ELSE 0))
    /\ [](stop => loop.atClosed.seen /\ loop.pc = "done")
    /\ [][stop => flushes' = flushes]_vars

\* c.stop is closed after a shutdown flush of a batch that was pending when
\* the second channel reported closed.
ShutdownFlushWitness ==
    /\ stop
    /\ loop.atClosed.pending > 0
    /\ flushes[Len(flushes)].trigger = "shutdown"

\* C6 as stated, its part a finite run decides: when Wait() has returned,
\* every runMetric goroutine, every channel worker and work() have exited (and
\* none has panicked).
ClientExitsClean ==
    main.pc = "done" =>
        /\ ~panicked
        /\ \A s \in DOMAIN feeders : feeders[s].pc = "done"
        /\ \A k \in DOMAIN chans : chans[k].pc = "done"
        /\ loop.pc = "done"

\* C11: a second call of Close() does not fail: the caller's thread never
\* panics in Close(), however often Close() was called.
CloseIdempotent == main.calls >= 2 => main.pc # "panic" /\ ~panicked

\* C12 as stated: every body handed to postMetric, whatever triggered the
\* flush, has a "gauges" entry only if a gauge observation was pending and a
\* "counters" entry only if a counter observation was pending.
FlushNonEmptySides ==
    \A i \in 1..Len(flushes) :
        /\ "gauges" \in flushes[i].keys => Len(flushes[i].gauges) > 0
        /\ "counters" \in flushes[i].keys => Len(flushes[i].counters) > 0

\* C15: no body handed to postMetric is empty; a flush is made only from a
\* batch with a pending observation, of which it is the body; and the batch
\* is empty after every flush.
NoEmptyFlush ==
    /\ [](\A i \in 1..Len(flushes) : Size(flushes[i]) > 0)
    /\ [][flushes' # flushes =>
            /\ Len(loop.gauges) + Len(loop.counters) > 0
            /\ Len(flushes') = Len(flushes) + 1
            /\ flushes'[Len(flushes')].gauges = loop.gauges
            /\ flushes'[Len(flushes')].counters = loop.counters
            /\ loop'.gauges = <<>> /\ loop'.counters = <<>>]_vars

\* A timer flush and a threshold flush were made, the loop then shut down
\* with an empty batch and made no shutdown flush.
NoEmptyFlushWitness ==
    /\ stop
    /\ loop.atClosed.pending = 0
    /\ \E i, j \in 1..Len(flushes) :
            flushes[i].trigger = "timer" /\ flushes[j].trigger = "threshold"
    /\ \A i \in 1..Len(flushes) : flushes[i].trigger # "shutdown"

\* C18 as stated: a collation channel is closed only when every runMetric
\* goroutine that feeds it has returned (so has forwarded all its items and
\* called wg.Done), and no runMetric goroutine panics on its send.
CollateClosedAfterFeeders ==
    /\ ~panicked
    /\ \A s \in DOMAIN feeders :
            chans[CollateOf(s)].rxClosed => feeders[s].pc = "done"

\* The observations of two lists are all different.
Disjoint(a, b) == \A i \in 1..Len(a), j \in 1..Len(b) : a[i] # b[j]

\* C13: when postMetric returns an error, the batch is reset to empty and the
\* loop goes on as after a successful flush (it keeps running, or closes
\* c.stop if this was the shutdown flush); the step changes nothing the
\* callers of Push can see; and no observation of a failed flush is in a
\* later flush.
TransportFailure ==
    /\ [][(flushes' # flushes /\ flushes'[Len(flushes')].err) =>
            /\ loop'.gauges = <<>> /\ loop'.counters = <<>>
            /\ loop'.pc = (IF flushes'[Len(flushes')].trigger = "shutdown" THEN "stop" ELSE "run")
            /\ loop'.closed = loop.closed
            /\ UNCHANGED <<chans, feeders, wg, stop, main, pushed, panicked>>]_vars
    /\ [](\A i, j \in 1..Len(flushes) :
            (i < j /\ flushes[i].err) =>
                /\ Disjoint(flushes[i].gauges, flushes[j].gauges)
                /\ Disjoint(flushes[i].counters, flushes[j].counters))

\* postMetric returned an error for the first flush; a value pushed later was
\* flushed after it with success, and Close() and Wait() have returned.
TransportFailureWitness ==
    /\ Len(flushes) >= 2
    /\ flushes[1].err /\ ~flushes[2].err
    /\ main.pc = "done" /\ ~panicked

\* C14: NewQueue panics, and no Queue is made, only for a minimum size that
\* is zero or not a power of two; for a power of two it returns an empty
\* Queue of that capacity and minimum size.
NewQueueContract ==
    /\ qLast.op = "panic" =>
            /\ qLast.before = 0 \/ ~IsPow2(qLast.before)
            /\ queue = NilQueue
    /\ qLast.op = "new" =>
            /\ IsPow2(qLast.before)
            /\ Len(queue.items) = qLast.before /\ queue.ms = qLast.before
            /\ queue.count = 0 /\ queue.start = 0 /\ queue.end = 0
            /\ \A i \in 1..Len(queue.items) : queue.items[i] = NoItem

\* NewQueue has panicked for a positive size that is not a power of two.
NewQueueContractWitness == qLast.op = "panic" /\ qLast.before > 2

\* C16: a Push on a full Queue doubles len(items) and any other Push keeps
\* it; a Pop that leaves 4*count = len(items) with len(items) above the
\* minimum size halves it, to 2*count, and any other Pop keeps it; with
\* minimum size 4, len(items) is 8 after 5 pushes and 4 once 4 of the 5 items
\* are popped.
ResizePolicy ==
    /\ qLast.op = "push" =>
            Len(queue.items) = (IF queue.count - 1 = qLast.before
                                THEN 2 * qLast.before ELSE qLast.before)
    /\ qLast.op = "pop" =>
            IF qLast.ok /\ 4 * queue.count = qLast.before /\ qLast.before > queue.ms
            THEN 2 * Len(queue.items) = qLast.before /\ Len(queue.items) = 2 * queue.count
            ELSE Len(queue.items) = qLast.before
    /\ (queue.ms = 4 /\ Len(qPushed) = 5 /\ Len(qPopped) = 0) => Len(queue.items) = 8
    /\ (queue.ms = 4 /\ Len(qPushed) = 5 /\ Len(qPopped) = 4) => Len(queue.items) = 4

\* Minimum size 4: the fifth push has doubled the capacity to 8, a Pop has
\* halved it, and 4 of the 5 items are popped.
ResizePolicyWitness ==
    /\ queue.ms = 4 /\ Len(qPushed) = 5 /\ Len(qPopped) = 4
    /\ {"grow", "shrink"} \subseteq qEvents
    /\ Len(queue.items) = 4

\* What C20 says of every Queue alike: count is within 0..len(items), end is
\* start + count modulo len(items), and a Pop on an empty Queue returns
\* (nil, false) and leaves the Queue as it is.
QueueShape ==
    /\ 0 <= queue.count /\ queue.count <= Len(queue.items)
    /\ queue.end = (queue.start + queue.count) % Len(queue.items)
    /\ queue.count = 0 => QueuePop(queue) = [q |-> queue, item |-> NoItem, ok |-> FALSE]

\* C20 as stated: the shape above, and a Queue whose len(items) exceeds the
\* minimum size holds more than a quarter of len(items).
QueueStructureAsStated ==
    /\ QueueShape
    /\ Len(queue.items) > queue.ms => 4 * queue.count > Len(queue.items)

\* C20, amended: the shape above, and a Queue whose len(items) exceeds the
\* minimum size and is at least 4 holds more than a quarter of len(items).
QueueStructure ==
    /\ QueueShape
    /\ (Len(queue.items) > queue.ms /\ Len(queue.items) >= 4) =>
            4 * queue.count > Len(queue.items)

\* A Pop has halved a Queue whose live window was wrapped, and len(items) is
\* still above the minimum size with a wrapped window.
QueueStructureWitness ==
    /\ {"shrink", "wrap"} \subseteq qEvents
    /\ Len(queue.items) > queue.ms /\ Len(queue.items) >= 4
    /\ queue.end <= queue.start /\ queue.count > 0

\* C19: whenever outCh is nil the Queue is empty and outItem is nil, so the
\* Queue holds items only while outItem is waiting to be sent; tx is closed
\* from the moment the worker leaves its loop and quit right after it, when
\* the worker returns; and tx is closed only with the input closed and
\* drained, the Queue empty and no outItem pending.
WorkerInvariant ==
    /\ ~fc.outCh => fc.buf.count = 0 /\ fc.outItem = NoItem
    /\ fc.buf.count > 0 => fc.outCh /\ fc.outItem # NoItem
    /\ fc.txClosed <=> fc.pc \in {"quit", "done"}
    /\ fc.quit <=> fc.pc = "done"
    /\ fc.txClosed =>
            /\ fc.rxClosed /\ fc.rx = <<>>
            /\ fc.buf.count = 0 /\ fc.outItem = NoItem

\* The output side is disabled again after the Queue had grown and was
\* drained, the worker still running.
WorkerInvariantWitness ==
    /\ fc.pc = "run" /\ ~fc.outCh
    /\ Len(fc.buf.items) > Pow2(BufMinLog)
    /\ Len(chPopped) > 0

\* C17 as stated: whatever the interleaving of the calls, at most one channel
\* (and runMetric goroutine) is made for a name, exactly one once a call for
\* it has returned, and all calls for it return that channel; no access to a
\* map races with another, and the runtime never stops the process.
GetMakesOne ==
    /\ \A s \in Sources : getters.made[s] <= 1
    /\ \A t \in DOMAIN getters.call :
            getters.call[t].pc = "done" =>
                getters.made[getters.call[t].s] = 1 /\ getters.call[t].ch = 1
    /\ \A t \in DOMAIN getters.call : ~Racing(t)
    /\ ~getters.fatal

====
